---- MODULE Spec2Model ----
(***************************************************************************)
(* Model of the useLiveTranslator hook and the App component that drives   *)
(* it (src/App.tsx): the recorder state machine, the microphone / audio    *)
(* context handles kept in refs, the transcript list, and the audio and    *)
(* text translate calls with their retry loops.                            *)
(*                                                                         *)
(* JavaScript runs one task at a time, so each action below is one task:   *)
(* the synchronous code between two suspension points (await).             *)
(***************************************************************************)
EXTENDS Integers, Sequences, FiniteSets, TLC

\* ---- bounds of the model -------------------------------------------------
MaxRuns  == 2      \* invocations of startRecording (with a key) and translateText
MaxClock == 2      \* largest value Date.now() reaches (milliseconds, from 0)

Cycles == 1..MaxRuns
Texts  == 1..MaxRuns
\* every translate call (audio or text) runs its own retry loop
AudioCall(k) == k
TextCall(t)  == MaxRuns + t
Calls == 1..(2 * MaxRuns)

\* ---- src/types.ts ---------------------------------------------------------
IDLE       == "IDLE"
RECORDING  == "RECORDING"
PROCESSING == "PROCESSING"
ERROR      == "ERROR"
RecorderState == {IDLE, RECORDING, PROCESSING, ERROR}

\* ---- literals of the hook -------------------------------------------------
\* an item appended with a resolved text
PlaceholderText_Resolved == "Could not translate."
\* the text a translation item is appended with
PlaceholderText == "Translating..."
AudioFallback   == "Could not translate audio."
TextFallback    == "Could not translate."
GenericError    == "Error during translation."
BusyError       == "Service busy (Quota Exceeded). Please try again in a moment."

maxRetries     == 3
InitialDelayMs == 1000

\* ---- the environment's inputs ----------------------------------------------
\* what the user can have typed: empty, whitespace only, or real text
TextInputs == {"", " ", "A"}
\* String.prototype.trim() leaves the empty string exactly for these inputs
Trim(s) == IF s \in {"", " "} THEN "" ELSE s

\* response.text of a successful generateContent: undefined, empty, or text
NoText == "<undefined>"
ResponseTexts == {NoText, "", "Hello"}

\* a rejected generateContent: the thrown value's status, whether its message
\* contains "429", whether its toString() contains "RESOURCE_EXHAUSTED"
Failures == [status : {429, 500}, msg429 : BOOLEAN, exhausted : BOOLEAN]

\* the average the analyser reports (a byte average, 0..255)
VolumeSamples == {0, 255}

\* where startRecording can throw after it was called with a key present
StartOutcomes == {"getUserMedia", "AudioContext", "createMediaStreamSource",
                  "MediaRecorder", "start", "ok"}

VARIABLES
  recorderState,     \* useState<RecorderState>
  volume,            \* useState(0)
  transcriptions,    \* useState<TranscriptionItem[]>: seq of [id, text, isUser]
  streamRef,         \* cycle whose MediaStream the ref holds, 0 = null
  audioContextRef,   \* cycle whose AudioContext the ref holds, 0 = null
  analyserRef,       \* cycle whose AnalyserNode the ref holds, 0 = null
  mediaRecorderRef,  \* cycle whose MediaRecorder the ref holds, 0 = null
  audioChunksRef,    \* number of non-empty chunks in the shared array
  hasApiKey,         \* process.env.API_KEY is set
  mounted,           \* the App component is mounted
  now,               \* the value Date.now() returned last
  rafPending,        \* updateVolume callbacks queued with requestAnimationFrame
  cyclePc,           \* per startRecording invocation: where it is suspended
  trackLive,         \* per cycle: its stream is acquired and its tracks not stopped
  ctxOpen,           \* per cycle: its AudioContext is constructed and not closed
  userStopped,       \* per cycle: stopRecording stopped its recorder (-> PROCESSING)
  blobSize,          \* per cycle: chunks in the Blob handleRecordingStop built
  textPc,            \* per translateText invocation: where it is suspended
  userMsgId,         \* per text call: id of its source item
  botMsgId,          \* per call: id of its placeholder item
  attempt,           \* per call: the loop variable attempt
  delayMs,           \* per call: the loop variable delayMs
  outcomes,          \* per call: the failed attempts it has retried so far
  delays,            \* per call: the wait(delayMs) arguments so far
  origin,            \* per transcript position: <<call, isUser>> that appended it
  settled            \* the generateContent settlement this step delivered, if any

refVars  == <<streamRef, audioContextRef, analyserRef, mediaRecorderRef, audioChunksRef>>
cycVars  == <<cyclePc, trackLive, ctxOpen, userStopped, blobSize>>
callVars == <<botMsgId, attempt, delayMs, outcomes, delays>>
txtVars  == <<textPc, userMsgId>>
listVars == <<transcriptions, origin>>
vars == <<recorderState, volume, transcriptions, streamRef, audioContextRef,
          analyserRef, mediaRecorderRef, audioChunksRef, hasApiKey, mounted,
          now, rafPending, cyclePc, trackLive, ctxOpen, userStopped, blobSize,
          textPc, userMsgId, botMsgId, attempt, delayMs, outcomes, delays,
          origin, settled>>

Init ==
  /\ recorderState = IDLE
  /\ volume = 0
  /\ transcriptions = <<>>
  /\ streamRef = 0
  /\ audioContextRef = 0
  /\ analyserRef = 0
  /\ mediaRecorderRef = 0
  /\ audioChunksRef = 0
  /\ hasApiKey \in BOOLEAN
  /\ mounted = TRUE
  /\ now = 0
  /\ rafPending = 0
  /\ cyclePc = [k \in Cycles |-> "none"]
  /\ trackLive = [k \in Cycles |-> FALSE]
  /\ ctxOpen = [k \in Cycles |-> FALSE]
  /\ userStopped = [k \in Cycles |-> FALSE]
  /\ blobSize = [k \in Cycles |-> 0]
  /\ textPc = [t \in Texts |-> "none"]
  /\ userMsgId = [t \in Texts |-> 0]
  /\ botMsgId = [c \in Calls |-> 0]
  /\ attempt = [c \in Calls |-> 0]
  /\ delayMs = [c \in Calls |-> 0]
  /\ outcomes = [c \in Calls |-> <<>>]
  /\ delays = [c \in Calls |-> <<>>]
  /\ origin = <<>>
  /\ settled = [call |-> 0, kind |-> "none", text |-> "<undefined>", id |-> 0,
                prior |-> <<>>, waits |-> <<>>]

\* ---- pure helpers ----------------------------------------------------------

\* const isQuota = e.message?.includes('429') || e.status === 429
\*                 || e.toString().includes('RESOURCE_EXHAUSTED')
IsQuota(e) == e.msg429 \/ e.status = 429 \/ e.exhausted

\* mutants of ShouldRetry: every failure is retried / the attempt is not bounded
ShouldRetry_AnyFailure(e, att) == att < maxRetries - 1
ShouldRetry_Unbounded(e, att) == IsQuota(e)

\* if (isQuota && attempt < maxRetries - 1) { ...retry... } else throw e
ShouldRetry(e, att) == IsQuota(e) /\ att < maxRetries - 1

\* mutant of NextDelay: the delay is not doubled
NextDelay_Constant(d) == d

\* delayMs *= 2
NextDelay(d) == d * 2

\* mutant of OrElse: the response text is used as it is
OrElse_NoFallback(t, fallback) == t

\* response?.text || "<fallback>"
OrElse(t, fallback) == IF t = NoText \/ t = "" THEN fallback ELSE t

\* an outer catch without the rate-limit test
ErrorMessage_AlwaysGeneric(e) == GenericError

\* the message the outer catch writes into the placeholder
ErrorMessage(e) == IF IsQuota(e) THEN BusyError ELSE GenericError

\* a settlement that appended the item when no item carries the id
MapText_AddIfMissing(list, id, text) ==
  IF \E i \in 1..Len(list) : list[i].id = id
  THEN [i \in 1..Len(list) |->
          IF list[i].id = id THEN [list[i] EXCEPT !.text = text] ELSE list[i]]
  ELSE Append(list, [id |-> id, text |-> text, isUser |-> FALSE])

\* prev.map(item => item.id === id ? { ...item, text } : item)
MapText(list, id, text) ==
  [i \in 1..Len(list) |->
     IF list[i].id = id THEN [list[i] EXCEPT !.text = text] ELSE list[i]]

\* mutants of FinallyState: the finally block leaves the state alone / always
\* resets it
FinallyState_Keep(prev) == prev
FinallyState_AlwaysIdle(prev) == IDLE

\* setRecorderState(prev => prev === ERROR ? prev : IDLE)
FinallyState(prev) == IF prev = ERROR THEN prev ELSE IDLE

\* track.stop() on every track of the stream in streamRef ends all tracks a
\* recorder of that stream records; the recorder then goes inactive and
\* fires dataavailable and stop by itself
TracksEnded(pcs) ==
  [j \in Cycles |->
     IF j = streamRef /\ pcs[j] = "recording" THEN "stopQueued" ELSE pcs[j]]

\* cleanupAudio's effect on the stream, the context and the volume
CleanupAudio ==
  /\ trackLive' = [j \in Cycles |-> trackLive[j] /\ j # streamRef]
  /\ streamRef' = 0
  /\ ctxOpen' = [j \in Cycles |-> ctxOpen[j] /\ j # audioContextRef]
  /\ audioContextRef' = 0
  /\ volume' = 0


\* ---- small operators on the per-call loop state ----------------------------

\* no generateContent settled in this step
NoSettlement == [call |-> 0, kind |-> "none", text |-> NoText, id |-> 0,
                 prior |-> <<>>, waits |-> <<>>]

\* call c's generateContent settled with this kind ("ok", "quota", "other")
\* and response text: the call's placeholder id, the failures it retried
\* before, and the delays it has waited or now begins to wait
Settlement(c, kind, text, retry) ==
  [call |-> c, kind |-> kind, text |-> text, id |-> botMsgId[c],
   prior |-> outcomes[c],
   waits |-> IF retry THEN Append(delays[c], delayMs[c]) ELSE delays[c]]

Append1(f, c, x) == [f EXCEPT ![c] = Append(@, x)]

\* the attempt's kind as the catch block sees it
Kind(e) == IF IsQuota(e) THEN "quota" ELSE "other"

\* the locals of a call when it starts
BeginCall(c, id) ==
  /\ botMsgId' = [botMsgId EXCEPT ![c] = id]
  /\ attempt' = [attempt EXCEPT ![c] = 0]
  /\ delayMs' = [delayMs EXCEPT ![c] = InitialDelayMs]
  /\ UNCHANGED <<outcomes, delays>>

\* the locals of a call go away when it returns
EndCall(c) ==
  /\ botMsgId' = [botMsgId EXCEPT ![c] = 0]
  /\ attempt' = [attempt EXCEPT ![c] = 0]
  /\ delayMs' = [delayMs EXCEPT ![c] = 0]
  /\ outcomes' = [outcomes EXCEPT ![c] = <<>>]
  /\ delays' = [delays EXCEPT ![c] = <<>>]

\* the invocations made so far, and the least invocation slot not used yet
Used == Cardinality({k \in Cycles : cyclePc[k] # "none"})
          + Cardinality({t \in Texts : textPc[t] # "none"})
FreshCycle(k) ==
  /\ Used < MaxRuns
  /\ cyclePc[k] = "none"
  /\ \A j \in Cycles : j < k => cyclePc[j] # "none"
FreshText(t) ==
  /\ Used < MaxRuns
  /\ textPc[t] = "none"
  /\ \A j \in Texts : j < t => textPc[j] # "none"

\* ---- the clock -------------------------------------------------------------
\* Date.now() is read only where an id is made; a read returns the last value
\* read or a later one
ClockReads == now..MaxClock

\* ---- recording -------------------------------------------------------------

\* a startRecording that did not look for the key
StartRecording_NoKeyCheck ==
  \E k \in Cycles :
    /\ FreshCycle(k)
    /\ cyclePc' = [cyclePc EXCEPT ![k] = "awaitMedia"]
    /\ UNCHANGED <<recorderState, volume, listVars, refVars, hasApiKey,
                   mounted, now, rafPending, trackLive, ctxOpen,
                   userStopped, blobSize, txtVars, callVars>>

\* startRecording up to its first await
StartRecording ==
  IF ~hasApiKey
  THEN /\ recorderState' = ERROR
       /\ UNCHANGED <<volume, listVars, refVars, hasApiKey, mounted, now,
                      rafPending, cycVars, txtVars, callVars>>
  ELSE \E k \in Cycles :
         /\ FreshCycle(k)
         /\ cyclePc' = [cyclePc EXCEPT ![k] = "awaitMedia"]
         /\ UNCHANGED <<recorderState, volume, listVars, refVars, hasApiKey,
                        mounted, now, rafPending, trackLive, ctxOpen,
                        userStopped, blobSize, txtVars, callVars>>

\* stopRecording
StopRecording ==
  IF mediaRecorderRef # 0 /\ cyclePc[mediaRecorderRef] = "recording"
  THEN /\ cyclePc' = [cyclePc EXCEPT ![mediaRecorderRef] = "stopQueued"]
       /\ userStopped' = [userStopped EXCEPT ![mediaRecorderRef] = TRUE]
       /\ recorderState' = PROCESSING
       /\ UNCHANGED <<volume, listVars, refVars, hasApiKey, mounted, now,
                      rafPending, trackLive, ctxOpen, blobSize, txtVars,
                      callVars>>
  ELSE UNCHANGED <<recorderState, volume, listVars, refVars, hasApiKey,
                   mounted, now, rafPending, cycVars, txtVars, callVars>>

\* the mic button's handler
ToggleVoice ==
  /\ mounted
  /\ IF recorderState = PROCESSING
     THEN UNCHANGED <<recorderState, volume, listVars, refVars, hasApiKey,
                      mounted, now, rafPending, cycVars, txtVars, callVars>>
     ELSE IF recorderState = RECORDING THEN StopRecording
     ELSE StartRecording
  /\ settled' = NoSettlement

\* a catch block that set IDLE
StateAfterStart_FailureIdle(o) == IF o = "ok" THEN RECORDING ELSE IDLE

\* setRecorderState at the end of startRecording's try block, or in its catch
StateAfterStart(o) == IF o = "ok" THEN RECORDING ELSE ERROR

\* getUserMedia settles and startRecording runs to its end; o names the call
\* that throws, "ok" when none does
GetUserMediaSettle(k) ==
  /\ cyclePc[k] = "awaitMedia"
  /\ \E o \in StartOutcomes, v \in VolumeSamples :
       LET acquired == o # "getUserMedia"
           hasCtx   == o \notin {"getUserMedia", "AudioContext"}
           hasAnalyser == o \in {"MediaRecorder", "start", "ok"}
           hasRecorder == o \in {"start", "ok"}
       IN
       /\ trackLive' = [trackLive EXCEPT ![k] = acquired]
       /\ streamRef' = IF acquired THEN k ELSE streamRef
       /\ ctxOpen' = [ctxOpen EXCEPT ![k] = hasCtx]
       /\ audioContextRef' = IF hasCtx THEN k ELSE audioContextRef
       /\ analyserRef' = IF hasAnalyser THEN k ELSE analyserRef
       \* updateVolume(): the analyser is set and the new stream is active
       /\ volume' = IF hasAnalyser THEN v ELSE volume
       /\ rafPending' = IF hasAnalyser THEN rafPending + 1 ELSE rafPending
       /\ mediaRecorderRef' = IF hasRecorder THEN k ELSE mediaRecorderRef
       /\ audioChunksRef' = IF hasRecorder THEN 0 ELSE audioChunksRef
       /\ cyclePc' = [cyclePc EXCEPT ![k] = IF o = "ok" THEN "recording" ELSE "failed"]
       /\ recorderState' = StateAfterStart(o)
  /\ settled' = NoSettlement
  /\ UNCHANGED <<listVars, hasApiKey, mounted, now, userStopped, blobSize,
                 txtVars, callVars>>

\* the recorder's dataavailable and stop events, and handleRecordingStop up
\* to its await of blobToBase64
OnStop(k) ==
  /\ cyclePc[k] = "stopQueued"
  /\ \E size \in {0, 1} :
       /\ audioChunksRef' = IF size > 0 THEN audioChunksRef + 1 ELSE audioChunksRef
       /\ blobSize' = [blobSize EXCEPT ![k] = audioChunksRef']
  /\ cyclePc' = [cyclePc EXCEPT ![k] = "encoding"]
  /\ settled' = NoSettlement
  /\ UNCHANGED <<recorderState, volume, listVars, streamRef, audioContextRef,
                 analyserRef, mediaRecorderRef, hasApiKey, mounted, now,
                 rafPending, trackLive, ctxOpen, userStopped, txtVars, callVars>>

\* the finally block of handleRecordingStop, entered with RecorderState prev
Finish(k, prev) ==
  /\ CleanupAudio
  /\ cyclePc' = [TracksEnded(cyclePc) EXCEPT ![k] = "done"]
  /\ blobSize' = [blobSize EXCEPT ![k] = 0]
  /\ recorderState' = FinallyState(prev)

\* blobToBase64 settles; on success translateAudio runs up to its first
\* generateContent, on failure the catch and finally blocks run
EncodeSettle(k) ==
  /\ cyclePc[k] = "encoding"
  /\ \E ok \in BOOLEAN :
       IF ~ok
       THEN /\ Finish(k, ERROR)
            /\ UNCHANGED <<listVars, callVars, now>>
       ELSE IF ~hasApiKey
       THEN /\ Finish(k, recorderState)
            /\ UNCHANGED <<listVars, callVars, now>>
       ELSE /\ now' \in ClockReads
            /\ BeginCall(AudioCall(k), now')
            /\ transcriptions' = Append(transcriptions,
                 [id |-> now', text |-> PlaceholderText, isUser |-> FALSE])
            /\ origin' = Append(origin, <<AudioCall(k), FALSE>>)
            /\ cyclePc' = [cyclePc EXCEPT ![k] = "attempt"]
            /\ UNCHANGED <<recorderState, volume, streamRef, audioContextRef,
                           trackLive, ctxOpen, blobSize>>
  /\ settled' = NoSettlement
  /\ UNCHANGED <<analyserRef, mediaRecorderRef, audioChunksRef, hasApiKey,
                 mounted, rafPending, userStopped, txtVars>>

\* translateAudio leaves its try block with text for the placeholder, and
\* handleRecordingStop runs its finally block
AudioSettle(k, text) ==
  /\ transcriptions' = MapText(transcriptions, botMsgId[AudioCall(k)], text)
  /\ EndCall(AudioCall(k))
  /\ Finish(k, recorderState)
  /\ UNCHANGED origin

\* one generateContent of translateAudio settles
AudioAttemptSettle(k) ==
  /\ cyclePc[k] = "attempt"
  /\ LET c == AudioCall(k) IN
     \/ \E r \in ResponseTexts :
          /\ settled' = Settlement(c, "ok", r, FALSE)
          /\ AudioSettle(k, OrElse(r, AudioFallback))
     \/ \E e \in Failures :
          /\ settled' = Settlement(c, Kind(e), NoText, ShouldRetry(e, attempt[c]))
          /\ IF ShouldRetry(e, attempt[c])
             THEN /\ attempt' = [attempt EXCEPT ![c] = @ + 1]
                  /\ outcomes' = Append1(outcomes, c, Kind(e))
                  /\ delays' = Append1(delays, c, delayMs[c])
                  /\ cyclePc' = [cyclePc EXCEPT ![k] = "backoff"]
                  /\ UNCHANGED <<recorderState, volume, listVars, streamRef,
                                 audioContextRef, trackLive, ctxOpen, botMsgId,
                                 delayMs, blobSize>>
             ELSE AudioSettle(k, ErrorMessage(e))
  /\ UNCHANGED <<analyserRef, mediaRecorderRef, audioChunksRef, hasApiKey,
                 mounted, now, rafPending, userStopped, txtVars>>

\* wait(delayMs) of translateAudio elapses: delayMs doubles and the loop
\* condition is tested again
AudioBackoffElapsed(k) ==
  /\ cyclePc[k] = "backoff"
  /\ LET c == AudioCall(k) IN
     IF attempt[c] < maxRetries
     THEN /\ delayMs' = [delayMs EXCEPT ![c] = NextDelay(@)]
          /\ cyclePc' = [cyclePc EXCEPT ![k] = "attempt"]
          /\ UNCHANGED <<recorderState, volume, listVars, streamRef,
                         audioContextRef, trackLive, ctxOpen, botMsgId,
                         attempt, outcomes, delays, blobSize>>
     ELSE AudioSettle(k, OrElse(NoText, AudioFallback))
  /\ settled' = NoSettlement
  /\ UNCHANGED <<analyserRef, mediaRecorderRef, audioChunksRef, hasApiKey,
                 mounted, now, rafPending, userStopped, txtVars>>

\* ---- text translation ------------------------------------------------------

\* a text input and send button that do not look at RecorderState
InputEnabled_Always == TRUE

\* the text input is enabled, and the send button shown for non-blank text,
\* unless isRecording or isProcessing
InputEnabled == recorderState \notin {RECORDING, PROCESSING}

\* handleSend with the typed text: the input is disabled and the send button
\* absent while recording or processing; translateText runs up to its first
\* generateContent, its two Date.now() reading the same millisecond
HandleSend ==
  /\ mounted
  /\ InputEnabled
  /\ \E text \in TextInputs :
       IF Trim(text) = "" \/ ~hasApiKey
       THEN UNCHANGED <<listVars, now, txtVars, callVars>>
       ELSE \E t \in Texts :
              /\ FreshText(t)
              /\ now' \in ClockReads
              /\ userMsgId' = [userMsgId EXCEPT ![t] = now']
              /\ BeginCall(TextCall(t), now' + 1)
              /\ transcriptions' = transcriptions \o
                   << [id |-> now', text |-> text, isUser |-> TRUE],
                      [id |-> now' + 1, text |-> PlaceholderText, isUser |-> FALSE] >>
              /\ origin' = origin \o << <<TextCall(t), TRUE>>, <<TextCall(t), FALSE>> >>
              /\ textPc' = [textPc EXCEPT ![t] = "attempt"]
  /\ settled' = NoSettlement
  /\ UNCHANGED <<recorderState, volume, refVars, hasApiKey, mounted,
                 rafPending, cycVars>>

\* a handleSend that translateText accepts: it appends the source item and
\* the placeholder
SubmitText == HandleSend /\ Len(transcriptions') = Len(transcriptions) + 2

\* translateText leaves its try block with text for the placeholder
TextSettle(t, text) ==
  /\ transcriptions' = MapText(transcriptions, botMsgId[TextCall(t)], text)
  /\ EndCall(TextCall(t))
  /\ userMsgId' = [userMsgId EXCEPT ![t] = 0]
  /\ textPc' = [textPc EXCEPT ![t] = "done"]
  /\ UNCHANGED origin

\* one generateContent of translateText settles
TextAttemptSettle(t) ==
  /\ textPc[t] = "attempt"
  /\ LET c == TextCall(t) IN
     \/ \E r \in ResponseTexts :
          /\ settled' = Settlement(c, "ok", r, FALSE)
          /\ TextSettle(t, OrElse(r, TextFallback))
     \/ \E e \in Failures :
          /\ settled' = Settlement(c, Kind(e), NoText, ShouldRetry(e, attempt[c]))
          /\ IF ShouldRetry(e, attempt[c])
             THEN /\ attempt' = [attempt EXCEPT ![c] = @ + 1]
                  /\ outcomes' = Append1(outcomes, c, Kind(e))
                  /\ delays' = Append1(delays, c, delayMs[c])
                  /\ textPc' = [textPc EXCEPT ![t] = "backoff"]
                  /\ UNCHANGED <<listVars, botMsgId, delayMs, userMsgId>>
             ELSE TextSettle(t, ErrorMessage(e))
  /\ UNCHANGED <<recorderState, volume, refVars, hasApiKey, mounted, now,
                 rafPending, cycVars>>

\* a text backoff that ended like a recording cycle's finally block
TextBackoffElapsed_ResetsRecorder(t) ==
  /\ textPc[t] = "backoff"
  /\ LET c == TextCall(t) IN
     IF attempt[c] < maxRetries
     THEN /\ delayMs' = [delayMs EXCEPT ![c] = NextDelay(@)]
          /\ textPc' = [textPc EXCEPT ![t] = "attempt"]
          /\ UNCHANGED <<listVars, botMsgId, attempt, outcomes, delays,
                         userMsgId>>
     ELSE TextSettle(t, OrElse(NoText, TextFallback))
  /\ settled' = NoSettlement
  /\ CleanupAudio
  /\ recorderState' = FinallyState(recorderState)
  /\ UNCHANGED <<analyserRef, mediaRecorderRef, audioChunksRef, hasApiKey,
                 mounted, now, rafPending, cyclePc, userStopped, blobSize>>

\* wait(delayMs) of translateText elapses
TextBackoffElapsed(t) ==
  /\ textPc[t] = "backoff"
  /\ LET c == TextCall(t) IN
     IF attempt[c] < maxRetries
     THEN /\ delayMs' = [delayMs EXCEPT ![c] = NextDelay(@)]
          /\ textPc' = [textPc EXCEPT ![t] = "attempt"]
          /\ UNCHANGED <<listVars, botMsgId, attempt, outcomes, delays,
                         userMsgId>>
     ELSE TextSettle(t, OrElse(NoText, TextFallback))
  /\ settled' = NoSettlement
  /\ UNCHANGED <<recorderState, volume, refVars, hasApiKey, mounted, now,
                 rafPending, cycVars>>

\* ---- helpers of the hook ---------------------------------------------------

\* one queued updateVolume callback runs
UpdateVolume ==
  /\ rafPending > 0
  /\ \E v \in VolumeSamples :
       IF analyserRef = 0 \/ streamRef = 0 \/ ~trackLive[streamRef]
       THEN /\ rafPending' = rafPending - 1
            /\ UNCHANGED volume
       ELSE /\ volume' = v
            /\ UNCHANGED rafPending
  /\ settled' = NoSettlement
  /\ UNCHANGED <<recorderState, listVars, refVars, hasApiKey, mounted, now,
                 cycVars, txtVars, callVars>>

\* a clearHistory that also released the audio resources and reset the state
ClearHistory_AlsoResets ==
  /\ mounted
  /\ transcriptions' = <<>>
  /\ origin' = <<>>
  /\ settled' = NoSettlement
  /\ CleanupAudio
  /\ recorderState' = IDLE
  /\ UNCHANGED <<analyserRef, mediaRecorderRef, audioChunksRef, hasApiKey,
                 mounted, now, rafPending, cyclePc, userStopped, blobSize,
                 txtVars, callVars>>

\* clearHistory, which the hook exports
ClearHistory ==
  /\ mounted
  /\ transcriptions' = <<>>
  /\ origin' = <<>>
  /\ settled' = NoSettlement
  /\ UNCHANGED <<recorderState, volume, refVars, hasApiKey, mounted, now,
                 rafPending, cycVars, txtVars, callVars>>

\* the unmount effect: the component goes away and cleanupAudio runs
Unmount ==
  /\ mounted
  /\ mounted' = FALSE
  /\ CleanupAudio
  /\ cyclePc' = TracksEnded(cyclePc)
  /\ settled' = NoSettlement
  /\ UNCHANGED <<recorderState, listVars, analyserRef, mediaRecorderRef,
                 audioChunksRef, hasApiKey, now, rafPending, userStopped,
                 blobSize, txtVars, callVars>>

\* ---- the specification -----------------------------------------------------

Next ==
  \/ ToggleVoice
  \/ \E k \in Cycles : GetUserMediaSettle(k)
  \/ \E k \in Cycles : OnStop(k)
  \/ \E k \in Cycles : EncodeSettle(k)
  \/ \E k \in Cycles : AudioAttemptSettle(k)
  \/ \E k \in Cycles : AudioBackoffElapsed(k)
  \/ HandleSend
  \/ \E t \in Texts : TextAttemptSettle(t)
  \/ \E t \in Texts : TextBackoffElapsed(t)
  \/ UpdateVolume

\* the App component as it is wired: it never calls clearHistory and, being
\* the root component, is not unmounted while the page lives
Spec == Init /\ [][Next]_vars

\* the hook with everything it exports, in a host that may unmount it
HookNext ==
  \/ Next
  \/ ClearHistory
  \/ Unmount

HookSpec == Init /\ [][HookNext]_vars

\* the browser runs every queued event, settles every promise and fires
\* every timer of a recording cycle
Progress(k) ==
  /\ WF_vars(OnStop(k))
  /\ WF_vars(EncodeSettle(k))
  /\ WF_vars(AudioAttemptSettle(k))
  /\ WF_vars(AudioBackoffElapsed(k))

FairSpec == Spec /\ \A k \in Cycles : Progress(k)

\* the page after a startRecording whose getUserMedia was rejected (or that
\* found no key): RecorderState is ERROR and nothing else was touched; that
\* invocation is over and is not counted in MaxRuns
RetryInit ==
  /\ recorderState = ERROR
  /\ volume = 0
  /\ transcriptions = <<>>
  /\ streamRef = 0
  /\ audioContextRef = 0
  /\ analyserRef = 0
  /\ mediaRecorderRef = 0
  /\ audioChunksRef = 0
  /\ hasApiKey \in BOOLEAN
  /\ mounted = TRUE
  /\ now = 0
  /\ rafPending = 0
  /\ cyclePc = [k \in Cycles |-> "none"]
  /\ trackLive = [k \in Cycles |-> FALSE]
  /\ ctxOpen = [k \in Cycles |-> FALSE]
  /\ userStopped = [k \in Cycles |-> FALSE]
  /\ blobSize = [k \in Cycles |-> 0]
  /\ textPc = [t \in Texts |-> "none"]
  /\ userMsgId = [t \in Texts |-> 0]
  /\ botMsgId = [c \in Calls |-> 0]
  /\ attempt = [c \in Calls |-> 0]
  /\ delayMs = [c \in Calls |-> 0]
  /\ outcomes = [c \in Calls |-> <<>>]
  /\ delays = [c \in Calls |-> <<>>]
  /\ origin = <<>>
  /\ settled = NoSettlement

\* the App component from there on: the user retries
RetrySpec == RetryInit /\ [][Next]_vars

TypeOK ==
  /\ recorderState \in RecorderState
  /\ volume \in VolumeSamples
  /\ streamRef \in 0..MaxRuns
  /\ rafPending \in 0..MaxRuns
  /\ Len(origin) = Len(transcriptions)


\* ---- claims ----------------------------------------------------------------

\* C1: under FairSpec, whenever RecorderState is PROCESSING (which only
\* stopRecording sets) it is eventually something else: no recording cycle
\* leaves RecorderState stuck in PROCESSING.
C1_ProcessingEnds == (recorderState = PROCESSING) ~> (recorderState # PROCESSING)

\* a cycle the user stopped has run to its end and RecorderState is IDLE again
C1_Witness ==
  /\ recorderState = IDLE
  /\ \E k \in Cycles : userStopped[k] /\ cyclePc[k] = "done"

\* the state table of the specification
TableTransitions ==
  { <<IDLE, RECORDING>>, <<RECORDING, PROCESSING>>, <<RECORDING, ERROR>>,
    <<PROCESSING, IDLE>> }

\* the transitions the hook makes: a failed setup is seen from IDLE, ERROR
\* is left by a new recording, a failed encoding ends PROCESSING in ERROR;
\* and a startRecording that settles late or a cycle that ends during another
\* recording moves PROCESSING to RECORDING, and RECORDING to IDLE or ERROR
HookTransitions ==
  { <<IDLE, RECORDING>>, <<IDLE, ERROR>>, <<ERROR, RECORDING>>,
    <<RECORDING, PROCESSING>>, <<PROCESSING, IDLE>>, <<PROCESSING, ERROR>>,
    <<PROCESSING, RECORDING>>, <<RECORDING, IDLE>>, <<RECORDING, ERROR>> }

\* C2 as stated: RecorderState changes only by IDLE->RECORDING,
\* RECORDING->PROCESSING, RECORDING->ERROR and PROCESSING->IDLE.
C2_TableOnly ==
  [][recorderState' # recorderState
       => <<recorderState, recorderState'>> \in TableTransitions]_vars

\* C2 amended: RecorderState changes only by the transitions of
\* HookTransitions; in particular PROCESSING is entered only from RECORDING
\* and ERROR is left only for RECORDING.
C2_HookTransitionsOnly ==
  [][recorderState' # recorderState
       => <<recorderState, recorderState'>> \in HookTransitions]_vars

\* a failed setup latched ERROR, and the retry is recording
C2_Witness ==
  /\ recorderState = RECORDING
  /\ \E k, j \in Cycles : cyclePc[k] = "failed" /\ cyclePc[j] = "recording"


\* the streams whose tracks are live
LiveStreams == {k \in Cycles : trackLive[k]}

\* C3 as stated, in its case of capture setups that succeed: there are never
\* two acquired and unreleased microphone streams, and every acquired stream
\* whose tracks are not stopped is the one streamRef holds.
C3_OneStreamHeld ==
  (\A k \in Cycles : cyclePc[k] # "failed") =>
    /\ Cardinality(LiveStreams) <= 1
    /\ \A k \in LiveStreams : streamRef = k

\* C4 as stated: when a cycle that the user stopped has finished, its stream
\* has no live track, its audio context is closed and the volume is 0; the
\* volume then leaves 0 only once another recording holds a stream.
C4_ReleasedAfterCycle ==
  [][\A k \in Cycles :
       (userStopped[k] /\ cyclePc'[k] = "done") =>
         /\ ~trackLive'[k]
         /\ ~ctxOpen'[k]
         /\ cyclePc[k] # "done" => volume' = 0
         /\ (cyclePc[k] = "done" /\ volume = 0 /\ volume' # 0)
              => streamRef' \notin {0, k}]_vars

\* C5 as stated: a startRecording that failed holds no live stream and no
\* open audio context.
C5_ReleasedOnSetupFailure ==
  \A k \in Cycles : cyclePc[k] = "failed" => ~trackLive[k] /\ ~ctxOpen[k]


\* where call c is suspended, whether it is a translateText call, and the
\* transcript positions that carry an id
CallPc(c) == IF c <= MaxRuns THEN cyclePc[c] ELSE textPc[c - MaxRuns]
IsTextCall(c) == c > MaxRuns
ItemsWithId(id) == {i \in 1..Len(transcriptions) : transcriptions[i].id = id}

\* C6: when a call's third generateContent succeeds after two rate-limit
\* failures, the call has waited exactly 1000 ms and then 2000 ms, and the
\* item carrying its placeholder id shows the response's text; and whenever
\* a call is about to make an attempt it has waited once per earlier attempt.
C6_TwoBackoffsThenResult ==
  /\ (settled.kind = "ok" /\ settled.prior = <<"quota", "quota">>) =>
       /\ settled.waits = <<1000, 2000>>
       /\ ItemsWithId(settled.id) # {}
       /\ settled.text \notin {NoText, ""} =>
            \A i \in ItemsWithId(settled.id) : transcriptions[i].text = settled.text
  /\ \A c \in Calls : CallPc(c) = "attempt" => Len(delays[c]) = attempt[c]

\* the third attempt of a text call succeeded with text after two rate limits
C6_Witness ==
  /\ settled.kind = "ok"
  /\ settled.prior = <<"quota", "quota">>
  /\ settled.text = "Hello"
  /\ IsTextCall(settled.call)

\* C7: a generateContent that fails without a rate-limit signal ends its
\* call at once: the call has returned, and no delay was begun for it; so a
\* call whose first attempt fails this way has made exactly one attempt.
C7_OtherFailureEndsCall ==
  settled.kind = "other" =>
    /\ CallPc(settled.call) = "done"
    /\ Len(settled.waits) = Len(settled.prior)
    /\ settled.prior = <<>> => settled.waits = <<>>

\* the first attempt of a call failed without a rate-limit signal
C7_Witness == settled.kind = "other" /\ settled.prior = <<>>

\* C8: a call makes at most 3 attempts and waits at most 2 times; when its
\* third attempt fails with a rate-limit signal the call returns without a
\* further wait and its placeholder shows the service-busy message.
C8_AtMostThreeAttempts ==
  /\ \A c \in Calls : attempt[c] + 1 <= 3 /\ Len(delays[c]) <= 2
  /\ Len(settled.prior) + 1 <= 3
  /\ Len(settled.waits) <= 2
  /\ (settled.kind = "quota" /\ Len(settled.prior) = 2) =>
       /\ CallPc(settled.call) = "done"
       /\ Len(settled.waits) = 2
       /\ \A i \in ItemsWithId(settled.id) : transcriptions[i].text = BusyError

\* a third attempt failed with a rate-limit signal
C8_Witness == settled.kind = "quota" /\ Len(settled.prior) = 2

\* C9 as stated: a successful response without text resolves the placeholder,
\* of an audio as of a text call, to "Could not translate.".
C9_OneFallback ==
  (settled.kind = "ok" /\ settled.text \in {NoText, ""}) =>
    \A i \in ItemsWithId(settled.id) :
      transcriptions[i].text = "Could not translate."

\* C9 amended: a successful response without text resolves the placeholder
\* of a text call to "Could not translate." and the placeholder of an audio
\* call to "Could not translate audio.".
C9_FallbackPerFlow ==
  (settled.kind = "ok" /\ settled.text \in {NoText, ""}) =>
    /\ ItemsWithId(settled.id) # {}
    /\ \A i \in ItemsWithId(settled.id) :
         transcriptions[i].text =
           IF IsTextCall(settled.call) THEN "Could not translate."
           ELSE "Could not translate audio."

\* an audio call's generateContent succeeded without text
C9_Witness ==
  /\ settled.kind = "ok"
  /\ settled.text = NoText
  /\ settled.call # 0
  /\ ~IsTextCall(settled.call)

\* the translateText calls in flight
TextCallsInFlight == {TextCall(t) : t \in {u \in Texts : textPc[u] \in {"attempt", "backoff"}}}

\* C10 as stated: when a text call returns while another text call is in
\* flight, the text of the other call's source item and placeholder item
\* does not change.
C10_NoCrossWrite ==
  [][\A a, b \in TextCallsInFlight :
       (a # b /\ CallPc(a)' = "done") =>
         \A i \in 1..Len(transcriptions) :
           origin[i][1] = b => transcriptions'[i].text = transcriptions[i].text]_vars


\* C11 as stated: in every reachable state the ids of the transcript items
\* are pairwise distinct.
C11_DistinctIds ==
  \A i, j \in 1..Len(transcriptions) :
    i # j => transcriptions[i].id # transcriptions[j].id


\* C12: under HookSpec, every clearHistory step, and every step that makes
\* the transcript shorter, ends with the empty transcript (so a clearHistory
\* of an empty transcript leaves it empty) and leaves RecorderState, the
\* stream, the audio context, the analyser, the recorder, the chunks and the
\* volume as they were.
C12_ClearOnlyEmpties ==
  [][(ClearHistory \/ Len(transcriptions') < Len(transcriptions)) =>
       /\ transcriptions' = <<>>
       /\ recorderState' = recorderState
       /\ volume' = volume
       /\ refVars' = refVars
       /\ trackLive' = trackLive
       /\ ctxOpen' = ctxOpen]_vars

\* the transcript was cleared while a text call is in flight and a recording
\* holds its stream with the volume meter up
C12_Witness ==
  /\ transcriptions = <<>>
  /\ \E t \in Texts : textPc[t] = "attempt"
  /\ recorderState = RECORDING
  /\ streamRef # 0
  /\ trackLive[streamRef]
  /\ volume = 255


\* C13 as stated: while RecorderState is PROCESSING no recording starts and
\* no microphone is acquired: no step from a PROCESSING state ends in
\* RECORDING or with a stream live that was not live before.
C13_NoRecordingFromProcessing ==
  [][recorderState = PROCESSING =>
       /\ recorderState' # RECORDING
       /\ \A k \in Cycles : trackLive'[k] => trackLive[k]]_vars


\* C14: every step of a translateText call (the submission, each settled
\* attempt, each elapsed backoff, the settlement: exactly the steps that
\* change textPc) leaves RecorderState, the stream and its tracks, the audio
\* context and the volume as they were.
C14_TextFlowFrame ==
  [][textPc' # textPc =>
       /\ recorderState' = recorderState
       /\ streamRef' = streamRef
       /\ trackLive' = trackLive
       /\ audioContextRef' = audioContextRef
       /\ ctxOpen' = ctxOpen
       /\ volume' = volume]_vars

\* a text call has settled after a retry while a recording holds its stream
\* with the volume meter up
C14_Witness ==
  /\ settled.call # 0
  /\ IsTextCall(settled.call)
  /\ settled.prior # <<>>
  /\ CallPc(settled.call) = "done"
  /\ recorderState = RECORDING
  /\ streamRef # 0
  /\ trackLive[streamRef]
  /\ volume = 255


\* the user can submit typed text: the page is mounted, the key is present
\* and an invocation is left within MaxRuns
CanSubmit == mounted /\ hasApiKey /\ \E t \in Texts : FreshText(t)

\* C15 as stated: in every RecorderState, and while other text submissions
\* are in flight, a non-blank typed-text submission is accepted and appends
\* its source item and its placeholder.
C15_AcceptedInEveryState == CanSubmit => ENABLED SubmitText

\* C15 amended: a non-blank typed-text submission is accepted, and appends
\* its source item and its placeholder, exactly while RecorderState is IDLE
\* or ERROR, other text submissions in flight or not; while RecorderState is
\* RECORDING or PROCESSING no typed text can be submitted.
C15_AcceptedUnlessCapturing ==
  CanSubmit => (ENABLED SubmitText <=> recorderState \in {IDLE, ERROR})

\* a second submission was accepted while the first was in flight: both
\* calls await their response and the transcript has their four items
C15_Witness ==
  /\ \E a, b \in TextCallsInFlight : a # b
  /\ Len(transcriptions) >= 4
  /\ \A i \in 1..Len(transcriptions) : IsTextCall(origin[i][1])


\* C16: the step in which a startRecording fails after it asked for the
\* microphone (getUserMedia rejects, or the audio context, the analyser or
\* the recorder throws) ends with RecorderState ERROR and with the
\* transcript as it was: no item appended, none changed.
C16_SetupFailureLatchesError ==
  [][\A k \in Cycles :
       (cyclePc[k] = "awaitMedia" /\ cyclePc'[k] = "failed") =>
         /\ recorderState' = ERROR
         /\ transcriptions' = transcriptions]_vars

\* a startRecording has failed, RecorderState is ERROR and the transcript
\* holds the items of a text call
C16_Witness ==
  /\ recorderState = ERROR
  /\ \E k \in Cycles : cyclePc[k] = "failed"
  /\ Len(transcriptions) = 2


\* C17: every translation item, of an audio as of a text call, is appended
\* with the text "Translating...", in a step that delivers no generateContent
\* settlement and after which its call has made no attempt so far and awaits
\* its first one; no translation item is appended with any other text.
C17_AppendedAsPlaceholder ==
  [][\A i \in (Len(transcriptions) + 1)..Len(transcriptions') :
       ~transcriptions'[i].isUser =>
         /\ transcriptions'[i].text = "Translating..."
         /\ settled'.kind = "none"
         /\ attempt'[origin'[i][1]] = 0
         /\ outcomes'[origin'[i][1]] = <<>>
         /\ LET c == origin'[i][1]
            IN  (IF IsTextCall(c) THEN textPc'[c - MaxRuns] ELSE cyclePc'[c])
                  = "attempt"]_vars

\* the placeholder of an audio call and the placeholder of a text call are
\* in the transcript, both calls awaiting their first response
C17_Witness ==
  \E i, j \in 1..Len(transcriptions) :
    /\ ~transcriptions[i].isUser /\ ~IsTextCall(origin[i][1])
    /\ ~transcriptions[j].isUser /\ IsTextCall(origin[j][1])
    /\ transcriptions[i].text = "Translating..."
    /\ transcriptions[j].text = "Translating..."
    /\ CallPc(origin[i][1]) = "attempt" /\ attempt[origin[i][1]] = 0
    /\ CallPc(origin[j][1]) = "attempt" /\ attempt[origin[j][1]] = 0


\* C18 as stated: whenever the text of a transcript item changes, the item
\* is a translation item, its text was "Translating..." and is no longer (so
\* it changes at most once); the text of a source item never changes.
C18_TextChangesOnce ==
  [][\A i \in 1..Len(transcriptions) :
       (i <= Len(transcriptions')
          /\ transcriptions'[i].text # transcriptions[i].text) =>
         /\ ~transcriptions[i].isUser
         /\ transcriptions[i].text = "Translating..."
         /\ transcriptions'[i].text # "Translating..."]_vars


\* C19: when process.env.API_KEY is not set, every step that changes
\* anything ends with RecorderState ERROR (a startRecording latched it) and
\* with no generateContent settled, no startRecording past its key check, no
\* stream acquired, no text call begun and the transcript empty.
C19_NoKeyFailsFast ==
  [][~hasApiKey =>
       /\ recorderState' = ERROR
       /\ settled'.kind = "none"
       /\ \A k \in Cycles : cyclePc'[k] = "none" /\ ~trackLive'[k]
       /\ streamRef' = 0
       /\ \A t \in Texts : textPc'[t] = "none"
       /\ transcriptions' = <<>>]_vars

\* without a key, the mic toggle has latched ERROR
C19_Witness ==
  /\ ~hasApiKey
  /\ recorderState = ERROR
  /\ streamRef = 0
  /\ transcriptions = <<>>


\* C20: when a call's generateContent fails and the call returns (the
\* failure is not retried), every item carrying the call's placeholder id
\* shows "Service busy (Quota Exceeded). Please try again in a moment." if
\* the failure carries a rate-limit signal and "Error during translation."
\* if it does not.
C20_BusyIffRateLimit ==
  (settled.kind \in {"quota", "other"} /\ CallPc(settled.call) = "done") =>
    /\ ItemsWithId(settled.id) # {}
    /\ \A i \in ItemsWithId(settled.id) :
         /\ settled.kind = "quota" =>
              transcriptions[i].text =
                "Service busy (Quota Exceeded). Please try again in a moment."
         /\ settled.kind = "other" =>
              transcriptions[i].text = "Error during translation."

\* a call that was rate-limited twice has failed for good on a rate limit
\* and shows the service-busy message
C20_Witness ==
  /\ settled.kind = "quota"
  /\ CallPc(settled.call) = "done"
  /\ settled.prior = <<"quota", "quota">>
  /\ \E i \in ItemsWithId(settled.id) :
       transcriptions[i].text =
         "Service busy (Quota Exceeded). Please try again in a moment."


\* C21 as stated: a cycle whose Blob holds no audio data makes no remote
\* attempt: it never awaits a generateContent or a backoff.
C21_EmptyCaptureNoAttempt ==
  \A k \in Cycles :
    cyclePc[k] \in {"attempt", "backoff"} => blobSize[k] > 0


\* C22 as stated: under HookSpec, for every recording cycle (a startRecording
\* that did not fail), the cycle's stream is stopped and its audio context
\* closed only in the step in which the cycle's translate step has settled
\* and the cycle ends, and in that step they are released and the volume is
\* 0: the release happens once, at the end of the cycle, also when the
\* component is unmounted during the cycle.
C22_CleanupOncePerCycle ==
  [][\A k \in Cycles :
       cyclePc'[k] # "failed" =>
         /\ ((trackLive[k] /\ ~trackLive'[k]) \/ (ctxOpen[k] /\ ~ctxOpen'[k]))
              => (cyclePc[k] # "done" /\ cyclePc'[k] = "done")
         /\ (cyclePc[k] # "done" /\ cyclePc'[k] = "done")
              => (~trackLive'[k] /\ ~ctxOpen'[k] /\ volume' = 0)]_vars


\* C23 as stated, under RetrySpec (RecorderState is ERROR after a failed
\* capture setup): a startRecording whose setup succeeds sets RECORDING, and
\* when the recording was stopped by the user and its translate step
\* settles, RecorderState is IDLE.
C23_RetryRecovers ==
  [][\A k \in Cycles :
       /\ (cyclePc[k] = "awaitMedia" /\ cyclePc'[k] = "recording")
            => recorderState' = RECORDING
       /\ (userStopped[k] /\ cyclePc[k] \in {"attempt", "backoff"}
             /\ cyclePc'[k] = "done")
            => recorderState' = IDLE]_vars


\* C24 as stated: when a recording cycle ends after its encoding failed,
\* RecorderState is ERROR and the transcript is as it was (no placeholder
\* exists); when it ends after its translate step settled, RecorderState is
\* IDLE, and if the step settled with a failure, rate limit or not, the
\* items carrying the call's placeholder id show an error message.
C24_OnlyEncodingFailureEndsInError ==
  [][\A k \in Cycles :
       (cyclePc[k] # "done" /\ cyclePc'[k] = "done") =>
         IF cyclePc[k] = "encoding"
         THEN /\ recorderState' = ERROR
              /\ transcriptions' = transcriptions
         ELSE /\ recorderState' = IDLE
              /\ settled'.kind \in {"quota", "other"} =>
                   \A i \in 1..Len(transcriptions') :
                     transcriptions'[i].id = settled'.id =>
                       transcriptions'[i].text \in {BusyError, GenericError}]_vars


\* C25: under HookSpec, a step in which a generateContent of any call
\* settles leaves the transcript's length and every item's id and isUser as
\* they were, and changes the text only of items whose id is the call's
\* placeholder id; so when no item carries that id (clearHistory removed the
\* placeholder while the call was in flight) the transcript is unchanged.
C25_SettlementRewritesInPlace ==
  [][settled'.kind # "none" =>
       /\ Len(transcriptions') = Len(transcriptions)
       /\ \A i \in 1..Len(transcriptions) :
            /\ transcriptions'[i].id = transcriptions[i].id
            /\ transcriptions'[i].isUser = transcriptions[i].isUser
            /\ transcriptions'[i].text # transcriptions[i].text
                 => transcriptions[i].id = settled'.id
       /\ ItemsWithId(settled'.id) = {} => transcriptions' = transcriptions]_vars

\* a call whose placeholder clearHistory had removed has settled with a
\* translation, and the transcript is empty
C25_Witness ==
  /\ settled.kind = "ok"
  /\ settled.text = "Hello"
  /\ CallPc(settled.call) = "done"
  /\ transcriptions = <<>>

====
